---- MODULE Spec2Model ----
(***************************************************************************)
(* Model of troupon/deals/baseviews.py: the deal-listing and collection    *)
(* listing base views (DealListBaseView, CollectionsBaseView,              *)
(* DealCollectionItemsListBaseView), their date filter, their pagination   *)
(* fallbacks and the order of the steps of their GET handlers.             *)
(*                                                                         *)
(* Dates are day numbers.  Query-string values are sequences of            *)
(* one-character strings, so that int() is modelled as a parse.            *)
(* Python sequences are 0-indexed; Item(s, i) reads s[i].                  *)
(***************************************************************************)
EXTENDS Integers, Sequences, FiniteSets, TLC

\* ------------------------------------------------------------------ bounds
\* longest Deal table whose rows are enumerated freely
MaxSmallDeals == 2
\* longest Deal table (long tables follow a fixed pattern of dates)
MaxDeals == 18
\* latest date_last_modified; also the day the requests are served
MaxDay == 2
\* view instances alive at the same time in SpecConc
MaxRequests == 2

\* ------------------------------------------------------- python values
\* a value that is None, a str or an int
None == [t |-> "none", s |-> <<>>, i |-> 0]
Str(chars) == [t |-> "str", s |-> chars, i |-> 0]
Num(n) == [t |-> "int", s |-> <<>>, i |-> n]

\* `not v`
Falsy(v) ==
    \/ v.t = "none"
    \/ v.t = "str" /\ v.s = <<>>
    \/ v.t = "int" /\ v.i = 0

Item(seq, i) == seq[i + 1]

DigitChars == {"0", "1", "2", "3", "4", "5", "6", "7", "8", "9"}

DigitVal(c) ==
    CASE c = "0" -> 0 [] c = "1" -> 1 [] c = "2" -> 2 [] c = "3" -> 3
      [] c = "4" -> 4 [] c = "5" -> 5 [] c = "6" -> 6 [] c = "7" -> 7
      [] c = "8" -> 8 [] c = "9" -> 9

RECURSIVE LStrip(_)
LStrip(chars) ==
    IF chars # <<>> /\ Head(chars) = " " THEN LStrip(Tail(chars)) ELSE chars

RECURSIVE RStrip(_)
RStrip(chars) ==
    IF chars # <<>> /\ chars[Len(chars)] = " "
    THEN RStrip(SubSeq(chars, 1, Len(chars) - 1))
    ELSE chars

RECURSIVE DigitsValue(_)
DigitsValue(chars) ==
    IF chars = <<>> THEN 0
    ELSE 10 * DigitsValue(SubSeq(chars, 1, Len(chars) - 1))
         + DigitVal(chars[Len(chars)])

\* int(v): the value, or the exception int() raises
PyInt(v) ==
    IF v.t = "int" THEN [ok |-> TRUE, val |-> v.i, exc |-> ""]
    ELSE IF v.t = "none" THEN [ok |-> FALSE, val |-> 0, exc |-> "TypeError"]
    ELSE
      LET stripped == RStrip(LStrip(v.s))
          signed == stripped # <<>> /\ Head(stripped) \in {"-", "+"}
          digits == IF signed THEN Tail(stripped) ELSE stripped
          wellFormed == digits # <<>>
                        /\ \A k \in 1..Len(digits) : digits[k] \in DigitChars
      IN  IF ~wellFormed
          THEN [ok |-> FALSE, val |-> 0, exc |-> "ValueError"]
          ELSE [ok |-> TRUE,
                val |-> IF signed /\ Head(stripped) = "-"
                        THEN 0 - DigitsValue(digits)
                        ELSE DigitsValue(digits),
                exc |-> ""]

\* ------------------------------------------------------------ paginator
Max(a, b) == IF a >= b THEN a ELSE b

\* int(ceil(a / float(b))) for a >= 1, b >= 1
CeilDiv(a, b) == (a + b - 1) \div b

\* Paginator.count
Count(object_list) == Len(object_list)

\* Paginator.num_pages (allow_empty_first_page keeps its default, True)
NumPages(object_list, per_page, orphans) ==
    CeilDiv(Max(1, Count(object_list) - orphans), per_page)

\* Paginator.validate_number
ValidateNumber(object_list, per_page, orphans, number) ==
    LET n == PyInt(number)
    IN  IF ~n.ok THEN [exc |-> "PageNotAnInteger", number |-> 0]
        ELSE IF n.val < 1 THEN [exc |-> "EmptyPage", number |-> 0]
        ELSE IF n.val > NumPages(object_list, per_page, orphans)
             THEN [exc |-> "EmptyPage", number |-> 0]
        ELSE [exc |-> "", number |-> n.val]

\* object_list[bottom:top]
Slice(object_list, bottom, top) ==
    IF bottom >= Len(object_list) THEN <<>>
    ELSE SubSeq(object_list, bottom + 1,
                IF top > Len(object_list) THEN Len(object_list) ELSE top)

NoPage == [number |-> 0, object_list |-> <<>>]

\* Paginator.page that leaves the orphans on a page of their own
PaginatorPage_NoOrphans(object_list, per_page, orphans, number) ==
    LET v == ValidateNumber(object_list, per_page, orphans, number)
        bottom == (v.number - 1) * per_page
        top == bottom + per_page
    IN  IF v.exc # "" THEN [exc |-> v.exc, page |-> NoPage]
        ELSE [exc |-> "",
              page |-> [number |-> v.number,
                        object_list |-> Slice(object_list, bottom, top)]]

\* Paginator.page: the Page, or the exception that validate_number raises
PaginatorPage(object_list, per_page, orphans, number) ==
    LET v == ValidateNumber(object_list, per_page, orphans, number)
        bottom == (v.number - 1) * per_page
        top == IF bottom + per_page + orphans >= Count(object_list)
               THEN Count(object_list)
               ELSE bottom + per_page
    IN  IF v.exc # "" THEN [exc |-> v.exc, page |-> NoPage]
        ELSE [exc |-> "",
              page |-> [number |-> v.number,
                        object_list |-> Slice(object_list, bottom, top)]]

\* the try block with the EmptyPage handler delivering page 1
GetPage_FirstOnEmptyPage(object_list, per_page, orphans, pg, default_page_num) ==
    LET show_page_num == IF Falsy(pg) THEN default_page_num ELSE pg
        first == PaginatorPage(object_list, per_page, orphans, show_page_num)
    IN  IF first.exc \in {"PageNotAnInteger", "EmptyPage"}
        THEN PaginatorPage(object_list, per_page, orphans, Num(1))
        ELSE first

\* the try block with the PageNotAnInteger handler delivering the last page
GetPage_LastOnNotAnInteger(object_list, per_page, orphans, pg, default_page_num) ==
    LET show_page_num == IF Falsy(pg) THEN default_page_num ELSE pg
        first == PaginatorPage(object_list, per_page, orphans, show_page_num)
    IN  IF first.exc \in {"PageNotAnInteger", "EmptyPage"}
        THEN PaginatorPage(object_list, per_page, orphans,
                           Num(NumPages(object_list, per_page, orphans)))
        ELSE first

\* the try block that picks the page to show, with its two handlers
GetPage(object_list, per_page, orphans, pg, default_page_num) ==
    LET show_page_num == IF Falsy(pg) THEN default_page_num ELSE pg
        first == PaginatorPage(object_list, per_page, orphans, show_page_num)
    IN  IF first.exc = "PageNotAnInteger"
        THEN PaginatorPage(object_list, per_page, orphans, Num(1))
        ELSE IF first.exc = "EmptyPage"
        THEN PaginatorPage(object_list, per_page, orphans,
                           Num(NumPages(object_list, per_page, orphans)))
        ELSE first

\* the description without the zero-items case
Describe_NoZeroCase(count, description, zero_items_message) == description

\* the description for the list header
Describe(count, description, zero_items_message) ==
    IF count # 0 THEN description ELSE zero_items_message


\* ------------------------------------------------------ the Deal table
Days == 0..MaxDay

\* datetime.date.today()
Today == MaxDay

\* the slug of the deal at position k of the table
SlugAt(k) == IF k % 2 = 0 THEN "b" ELSE "a"

DealRow(k, date) == [date_last_modified |-> date, slug |-> SlugAt(k)]

\* the tables the requests are served from: every assignment of dates to a
\* short table, and a fixed pattern of dates for the long ones
LongTable(n) == [k \in 1..n |-> DealRow(k, k % (MaxDay + 1))]

DealTables ==
    UNION {{[k \in 1..n |-> DealRow(k, dates[k])] : dates \in [1..n -> Days]} :
              n \in 0..MaxSmallDeals}
    \cup {LongTable(n) : n \in (MaxDeals - 3)..MaxDeals}

\* EPOCH_CHOICES: a list of (delta in days, label)
EpochChoiceConfigs ==
    { << <<-1, "All time">>, <<7, "Last week">>, <<30, "Last month">> >>,
      << <<1, "Last day">>, <<2, "Last two days">>, <<-1, "Show all">> >> }

\* --------------------------------------------------------------- state
VARIABLES
    table,        \* the rows of Deal, in the order Deal.objects returns them
    date_filter,  \* the dict that the class attribute date_filter refers to
    view          \* the view instance serving each request

vars == <<table, date_filter, view>>

Requests == 1..MaxRequests

\* Deal.objects.all(): deals are named by their position in the table
AllDeals == [k \in 1..Len(table) |-> k]

RECURSIVE SelectDeals(_, _)
SelectDeals(deals, keep) ==
    IF deals = <<>> THEN <<>>
    ELSE IF Head(deals) \in keep
         THEN <<Head(deals)>> \o SelectDeals(Tail(deals), keep)
         ELSE SelectDeals(Tail(deals), keep)

\* the filter with date_last_modified__gte
FilterDateGte(deals, filter_date) ==
    SelectDeals(deals,
        {k \in 1..Len(table) : table[k].date_last_modified >= filter_date})

\* deals.filter(date_last_modified__gt=filter_date)
FilterDateGt(deals, filter_date) ==
    SelectDeals(deals,
        {k \in 1..Len(table) : table[k].date_last_modified > filter_date})

\* Deal.objects.filter(**filter), filter being the routing kwargs {slug: ...}
FilterBySlug(slug) ==
    SelectDeals(AllDeals, {k \in 1..Len(table) : table[k].slug = slug})

NoListing ==
    [deals_page |-> NoPage, date_filter_default |-> 0, title |-> "",
     description |-> "", shown |-> FALSE]

\* the keyword arguments of render_deal_list
NoKwargs == [given |-> FALSE, deals |-> <<>>, title |-> "", description |-> ""]

\* a view instance before it is handed a request
FreshView ==
    [kind |-> "", pc |-> "idle",
     pg |-> None, dtf |-> None, slug |-> "",
     deals |-> <<>>, queryset |-> <<>>, found |-> "", kwargs |-> NoKwargs,
     title |-> "", description |-> "", zero_items_message |-> "",
     num_page_items |-> 1, min_orphan_items |-> 0, show_page_num |-> Num(1),
     deals_in |-> <<>>, default_in |-> 0, paginator_list |-> <<>>,
     deals_page |-> NoPage, listing |-> NoListing,
     do_render_result |-> "", outcome |-> "", trace |-> <<>>]


\* ------------------------------------------------------------- inputs
\* the slugs of the instances of the configured model
ModelSlugs == {"a", "b"}

RoutedSlugs == {"a", "b", "c"}

PgValues ==
    {None, Str(<<>>), Str(<<"1">>), Str(<<"2">>), Str(<<"3">>), Str(<<"0">>),
     Str(<<"-", "1">>), Str(<<"x">>), Str(<<" ", "2">>)}

DtfValues ==
    {None, Str(<<>>), Str(<<"0">>), Str(<<"1">>), Str(<<"2">>), Str(<<"3">>),
     Str(<<"-", "1">>), Str(<<"x">>)}

\* show_page_num as a subclass may configure it
ShowPageNums == {Num(1), Num(2), Num(0), Str(<<"x">>)}

\* (num_page_items, min_orphan_items): the class defaults of the two base
\* views and what a subclass may configure
DealListSettings == {<<15, 2>>, <<2, 1>>, <<2, 3>>}
CollectionsSettings == {<<9, 3>>, <<2, 1>>, <<2, 3>>}

\* the page asked for and the configured page: the configured page is only
\* read when pg is absent or empty
PageRequests ==
    {<<pg, spn>> \in PgValues \X ShowPageNums : Falsy(pg) \/ spn = Num(1)}

\* DealCollectionItemsListBaseView keeps the show_page_num it inherits
InheritedPageRequests == {<<pg, Num(1)>> : pg \in PgValues}

CollectionSizes == {0, 1, 3, 4, 12, 13}

\* ------------------------------------------------------------ handlers
\* names bound in the module: the imports and the three classes
ModuleNames ==
    {"datetime", "render", "View", "RequestContext", "loader", "Engine",
     "Paginator", "EmptyPage", "PageNotAnInteger", "Deal", "STATE_CHOICES",
     "EPOCH_CHOICES", "DealListBaseView", "CollectionsBaseView",
     "DealCollectionItemsListBaseView"}

\* raise name(...): evaluating an unbound name raises NameError instead
Raise(name) == IF name \in ModuleNames THEN name ELSE "NameError"

\* filter_deals_from_params without the test for a negative index: a
\* negative index counts from the end of the choices
FilterDealsFromParams_NegativeIndex(deals, filter_dict, dtf) ==
    LET unchanged == [deals |-> deals, date_filter |-> filter_dict]
        n == PyInt(dtf)
        choices == filter_dict.choices
        index == IF n.val < 0 THEN n.val + Len(choices) ELSE n.val
        date_filter_delta == Item(Item(choices, index), 0)
    IN  IF Falsy(dtf) THEN unchanged
        ELSE IF ~n.ok THEN unchanged
        ELSE IF index < 0 \/ n.val >= Len(choices) THEN unchanged
        ELSE [deals |-> IF date_filter_delta # -1
                        THEN FilterDateGt(deals, Today - date_filter_delta)
                        ELSE deals,
              date_filter |-> [filter_dict EXCEPT !.default = date_filter_delta]]

\* filter_deals_from_params recording the default only when it filters
FilterDealsFromParams_SkipsSentinel(deals, filter_dict, dtf) ==
    LET unchanged == [deals |-> deals, date_filter |-> filter_dict]
        n == PyInt(dtf)
        choices == filter_dict.choices
        date_filter_delta == Item(Item(choices, n.val), 0)
    IN  IF Falsy(dtf) THEN unchanged
        ELSE IF ~n.ok THEN unchanged
        ELSE IF n.val < 0 \/ n.val >= Len(choices) THEN unchanged
        ELSE IF date_filter_delta = -1 THEN unchanged
        ELSE [deals |-> FilterDateGt(deals, Today - date_filter_delta),
              date_filter |-> [filter_dict EXCEPT !.default = date_filter_delta]]

\* filter_deals_from_params: the new self.deals and the date_filter dict
FilterDealsFromParams(deals, filter_dict, dtf) ==
    LET unchanged == [deals |-> deals, date_filter |-> filter_dict]
        n == PyInt(dtf)
        choices == filter_dict.choices
        date_filter_delta == Item(Item(choices, n.val), 0)
    IN  IF Falsy(dtf) THEN unchanged
        ELSE IF ~n.ok THEN unchanged
        ELSE IF n.val < 0 \/ n.val >= Len(choices) THEN unchanged
        ELSE [deals |-> IF date_filter_delta # -1
                        THEN FilterDateGt(deals, Today - date_filter_delta)
                        ELSE deals,
              date_filter |-> [filter_dict EXCEPT !.default = date_filter_delta]]

\* the listing dictionary handed to the template
Listing(v, deals_page, filter_dict) ==
    [deals_page |-> deals_page,
     date_filter_default |-> filter_dict.default,
     title |-> v.title,
     description |-> Describe(Count(v.paginator_list), v.description,
                              v.zero_items_message),
     shown |-> TRUE]

Init ==
    /\ table \in DealTables
    /\ date_filter \in {[choices |-> c, default |-> -1] : c \in EpochChoiceConfigs}
    /\ view = [r \in Requests |-> FreshView]

\* a request reaches DealListBaseView.get on a fresh instance
DispatchDealList(r, pages, dtfs, settings) ==
    /\ view[r].pc = "idle"
    /\ \E p \in pages, dtf \in dtfs, st \in settings :
         view' = [view EXCEPT ![r] =
            [FreshView EXCEPT
                !.kind = "DealListBaseView", !.pc = "filter",
                !.pg = p[1], !.show_page_num = p[2], !.dtf = dtf,
                !.deals = AllDeals,
                !.title = "Deals", !.description = "",
                !.zero_items_message = "Sorry, no deals found!",
                !.num_page_items = st[1], !.min_orphan_items = st[2]]]
    /\ UNCHANGED <<table, date_filter>>

\* a request reaches DealCollectionItemsListBaseView.get on a fresh instance
DispatchDealCollectionItems(r, pages, dtfs) ==
    /\ view[r].pc = "idle"
    /\ \E p \in pages, dtf \in dtfs, slug \in RoutedSlugs :
         view' = [view EXCEPT ![r] =
            [FreshView EXCEPT
                !.kind = "DealCollectionItemsListBaseView", !.pc = "lookup",
                !.pg = p[1], !.show_page_num = p[2], !.dtf = dtf,
                !.slug = slug, !.deals = AllDeals,
                !.title = "", !.description = "",
                !.zero_items_message = "Sorry, no deals found!",
                !.num_page_items = 15, !.min_orphan_items = 2]]
    /\ UNCHANGED <<table, date_filter>>

\* a request reaches CollectionsBaseView.get on a fresh instance
DispatchCollections(r, pages, settings) ==
    /\ view[r].pc = "idle"
    /\ \E p \in pages, st \in settings, n \in CollectionSizes :
         view' = [view EXCEPT ![r] =
            [FreshView EXCEPT
                !.kind = "CollectionsBaseView", !.pc = "collections_get",
                !.pg = p[1], !.show_page_num = p[2],
                !.queryset = [k \in 1..n |-> k],
                !.title = "Collection listing",
                !.description = "See all collection items",
                !.zero_items_message = "Sorry, no collection items found!",
                !.num_page_items = st[1], !.min_orphan_items = st[2]]]
    /\ UNCHANGED <<table, date_filter>>


\* DealCollectionItemsListBaseView.get up to the slug lookup: on a miss the
\* handler raises; on a hit self.queryset is the instance found
GetQueryset(r) ==
    LET v == view[r]
    IN  /\ v.pc = "lookup"
        /\ view' = [view EXCEPT ![r] =
              IF v.slug \in ModelSlugs
              THEN [v EXCEPT !.found = v.slug, !.pc = "filter_deals",
                             !.trace = Append(@, "get_queryset")]
              ELSE [v EXCEPT !.outcome = Raise("Http404"), !.pc = "done",
                             !.trace = Append(@, "get_queryset")]]
        /\ UNCHANGED <<table, date_filter>>

\* filter_deals(**kwargs), set_title, set_description and the entry of
\* do_render, which passes deals, title and description to render_deal_list
FilterDeals(r) ==
    LET v == view[r]
        deals == FilterBySlug(v.slug)
    IN  /\ v.pc = "filter_deals"
        /\ view' = [view EXCEPT ![r] =
              [v EXCEPT !.deals = deals,
                        !.title = "some title",
                        !.description = "some desc",
                        !.kwargs = [given |-> TRUE, deals |-> deals,
                                    title |-> "some title",
                                    description |-> "some desc"],
                        !.pc = "filter",
                        !.trace = @ \o <<"filter_deals", "set_title",
                                         "set_description">>]]
        /\ UNCHANGED <<table, date_filter>>

\* render_deal_list up to the date filter: the keyword arguments are set as
\* attributes, then filter_deals_from_params runs
FilterStep(r) ==
    LET v == view[r]
        deals == IF v.kwargs.given THEN v.kwargs.deals ELSE v.deals
        res == FilterDealsFromParams(deals, date_filter, v.dtf)
    IN  /\ v.pc = "filter"
        /\ view' = [view EXCEPT ![r] =
              [v EXCEPT !.title = IF v.kwargs.given THEN v.kwargs.title ELSE @,
                        !.description = IF v.kwargs.given
                                        THEN v.kwargs.description ELSE @,
                        !.deals_in = deals,
                        !.default_in = date_filter.default,
                        !.deals = res.deals,
                        !.pc = "paginate",
                        !.trace = Append(@, "render_deal_list")]]
        /\ date_filter' = res.date_filter
        /\ UNCHANGED table

\* render_deal_list: the paginator is built and the page is picked; an
\* exception that a handler itself raises leaves the view
Paginate(r) ==
    LET v == view[r]
        res == GetPage(v.deals, v.num_page_items, v.min_orphan_items,
                       v.pg, v.show_page_num)
    IN  /\ v.pc = "paginate"
        /\ view' = [view EXCEPT ![r] =
              IF res.exc # ""
              THEN [v EXCEPT !.paginator_list = v.deals,
                             !.outcome = res.exc, !.pc = "done"]
              ELSE [v EXCEPT !.paginator_list = v.deals,
                             !.deals_page = res.page, !.pc = "render"]]
        /\ UNCHANGED <<table, date_filter>>

\* the rest of render_deal_list and of DealListBaseView.get: the listing is
\* rendered to a string and the page template to the response
DealListRender(r) ==
    LET v == view[r]
    IN  /\ v.pc = "render"
        /\ v.kind = "DealListBaseView"
        /\ view' = [view EXCEPT ![r] =
              [v EXCEPT !.listing = Listing(v, v.deals_page, date_filter),
                        !.outcome = "HttpResponse", !.pc = "done"]]
        /\ UNCHANGED <<table, date_filter>>

\* the rest of render_deal_list and of do_render, whose result
\* DealCollectionItemsListBaseView.get drops: get ends without a return
DoRender(r) ==
    LET v == view[r]
    IN  /\ v.pc = "render"
        /\ v.kind = "DealCollectionItemsListBaseView"
        /\ view' = [view EXCEPT ![r] =
              [v EXCEPT !.listing = Listing(v, v.deals_page, date_filter),
                        !.do_render_result = "HttpResponse",
                        !.outcome = "None", !.pc = "done",
                        !.trace = @ \o <<"set_context_data", "render">>]]
        /\ UNCHANGED <<table, date_filter>>

\* CollectionsBaseView.get
CollectionsGet(r) ==
    LET v == view[r]
        res == GetPage(v.queryset, v.num_page_items, v.min_orphan_items,
                       v.pg, v.show_page_num)
        w == [v EXCEPT !.paginator_list = v.queryset]
    IN  /\ v.pc = "collections_get"
        /\ view' = [view EXCEPT ![r] =
              IF res.exc # ""
              THEN [w EXCEPT !.outcome = res.exc, !.pc = "done"]
              ELSE [w EXCEPT !.deals_page = res.page,
                             !.listing = Listing(w, res.page, date_filter),
                             !.outcome = "HttpResponse", !.pc = "done"]]
        /\ UNCHANGED <<table, date_filter>>

\* the response has left; the instance is dropped
Finish(r) ==
    /\ view[r].pc = "done"
    /\ view' = [view EXCEPT ![r] = FreshView]
    /\ UNCHANGED <<table, date_filter>>

\* one request at a time
Next ==
    \/ DispatchDealList(1, PageRequests, DtfValues, DealListSettings)
    \/ DispatchDealCollectionItems(1, InheritedPageRequests, DtfValues)
    \/ DispatchCollections(1, PageRequests, CollectionsSettings)
    \/ GetQueryset(1)
    \/ FilterDeals(1)
    \/ FilterStep(1)
    \/ Paginate(1)
    \/ DealListRender(1)
    \/ DoRender(1)
    \/ CollectionsGet(1)
    \/ Finish(1)

Spec == Init /\ [][Next]_vars


\* two requests on two instances of DealListBaseView, their steps interleaved
ConcPages == {<<None, Num(1)>>, <<Str(<<"2">>), Num(1)>>}
ConcDtfs == {None, Str(<<"0">>), Str(<<"1">>)}

NextConc ==
    \E r \in Requests :
        \/ DispatchDealList(r, ConcPages, ConcDtfs, {<<15, 2>>})
        \/ FilterStep(r)
        \/ Paginate(r)
        \/ DealListRender(r)
        \/ Finish(r)

SpecConc == Init /\ [][NextConc]_vars

\* ------------------------------------------------------------ properties
Range(seq) == {seq[k] : k \in 1..Len(seq)}

Exceptions == {"EmptyPage", "PageNotAnInteger", "NameError", "Http404"}

\* the handler has paginated (or tried to) and has ended
Paginated(v) ==
    /\ v.pc = "done"
    /\ \/ v.kind = "CollectionsBaseView"
       \/ "render_deal_list" \in Range(v.trace)

\* the page was handed to the renderer and no exception left the handler
Served(v) == v.listing.shown /\ v.outcome \notin Exceptions

LastPageNumber(v) ==
    NumPages(v.paginator_list, v.num_page_items, v.min_orphan_items)

\* the page handed to the renderer is the last one: it has the last page's
\* number and ends with the last item of the collection
ShowsLastPage(v) ==
    /\ v.listing.deals_page.number = LastPageNumber(v)
    /\ \/ v.paginator_list = <<>> /\ v.listing.deals_page.object_list = <<>>
       \/ /\ v.paginator_list # <<>>
          /\ v.listing.deals_page.object_list # <<>>
          /\ v.listing.deals_page.object_list[Len(v.listing.deals_page.object_list)]
               = v.paginator_list[Len(v.paginator_list)]

\* the page handed to the renderer is page 1: it has number 1 and starts
\* with the first item of the collection
ShowsFirstPage(v) ==
    /\ v.listing.deals_page.number = 1
    /\ \/ v.paginator_list = <<>> /\ v.listing.deals_page.object_list = <<>>
       \/ /\ v.paginator_list # <<>>
          /\ v.listing.deals_page.object_list # <<>>
          /\ Head(v.listing.deals_page.object_list) = Head(v.paginator_list)

OutOfRange(v, n) == n < 1 \/ n > LastPageNumber(v)

\* C1: a pg that is an integer outside 1..num_pages is served the last page
\* of the collection, empty or not, and no exception leaves the handler.
C1_OutOfRangeServesLastPage ==
    \A r \in Requests :
        LET v == view[r]
            n == PyInt(v.pg)
        IN  (Paginated(v) /\ ~Falsy(v.pg) /\ n.ok /\ OutOfRange(v, n.val))
            => (Served(v) /\ ShowsLastPage(v))

C1_Witness ==
    \E r \in Requests :
        LET v == view[r]
        IN  /\ Paginated(v) /\ Served(v)
            /\ v.pg = Str(<<"3">>)
            /\ LastPageNumber(v) = 2
            /\ v.listing.deals_page.number = 2

\* C2: a non-empty pg that does not parse as an integer is served page 1;
\* an absent or empty pg is served the configured show_page_num, page 1 if
\* that is not an integer and the last page if it is out of range.
C2_NonIntegerServesFirstPage ==
    \A r \in Requests :
        LET v == view[r]
            n == PyInt(v.pg)
            d == PyInt(v.show_page_num)
        IN  Paginated(v) =>
            /\ (~Falsy(v.pg) /\ ~n.ok) => (Served(v) /\ ShowsFirstPage(v))
            /\ (Falsy(v.pg) /\ ~d.ok) => (Served(v) /\ ShowsFirstPage(v))
            /\ (Falsy(v.pg) /\ d.ok /\ OutOfRange(v, d.val))
                  => (Served(v) /\ ShowsLastPage(v))
            /\ (Falsy(v.pg) /\ d.ok /\ ~OutOfRange(v, d.val))
                  => (Served(v) /\ v.listing.deals_page.number = d.val)

C2_Witness ==
    \E r \in Requests :
        LET v == view[r]
        IN  /\ Paginated(v) /\ Served(v)
            /\ v.pg = Str(<<"x">>)
            /\ LastPageNumber(v) > 1
            /\ v.listing.deals_page.number = 1

\* C3: when the paginated collection (after the date filter) is empty the
\* handler ends without an exception and the description is
\* zero_items_message, whatever pg is; otherwise it is the configured
\* description.
C3_ZeroItemsMessage ==
    \A r \in Requests :
        LET v == view[r]
        IN  Paginated(v) =>
            /\ Served(v)
            /\ v.paginator_list = <<>>
                  => v.listing.description = v.zero_items_message
            /\ v.paginator_list # <<>>
                  => v.listing.description = v.description

C3_Witness ==
    \E r \in Requests :
        LET v == view[r]
        IN  /\ Paginated(v) /\ Served(v)
            /\ v.deals_in # <<>> /\ v.paginator_list = <<>>
            /\ v.pg = Str(<<"3">>)
            /\ v.listing.description = "Sorry, no deals found!"


\* filter_deals_from_params has just returned
AfterFilter(v) == v.pc = "paginate"

\* dtf parses to an index of the configured choices
ValidIndex(v) ==
    /\ ~Falsy(v.dtf)
    /\ PyInt(v.dtf).ok
    /\ PyInt(v.dtf).val >= 0
    /\ PyInt(v.dtf).val < Len(date_filter.choices)

\* the delta of the choice that dtf names
ChosenDelta(v) == date_filter.choices[PyInt(v.dtf).val + 1][1]

\* C4: filter_deals_from_params leaves self.deals and date_filter['default']
\* as they were when dtf is absent, empty, not an integer, negative or not
\* below the number of choices.
C4_BadDtfIsNoOp ==
    \A r \in Requests :
        LET v == view[r]
        IN  (AfterFilter(v) /\ ~ValidIndex(v))
            => (v.deals = v.deals_in /\ date_filter.default = v.default_in)

C4_Witness ==
    \E r \in Requests :
        LET v == view[r]
        IN  /\ AfterFilter(v)
            /\ v.dtf = Str(<<"-", "1">>)
            /\ v.deals_in # <<>>
            /\ v.deals = v.deals_in
            /\ date_filter.default # -1

\* the deals of a collection modified after a day, in the collection's order
ModifiedAfter(deals, day) ==
    SelectDeals(deals, {k \in Range(deals) : table[k].date_last_modified > day})

\* C5: for a dtf that names choice i with delta d, self.deals is unchanged if
\* d = -1 and otherwise holds exactly the deals modified strictly after
\* today - d days; that collection is the one the paginator is built on.
C5_FilterByDelta ==
    \A r \in Requests :
        LET v == view[r]
            d == ChosenDelta(v)
        IN  ("render_deal_list" \in Range(v.trace) /\ ValidIndex(v)) =>
            /\ d = -1 => v.deals = v.deals_in
            /\ d # -1 =>
                  /\ v.deals = ModifiedAfter(v.deals_in, Today - d)
                  /\ \A k \in Range(v.deals_in) :
                        table[k].date_last_modified = Today - d
                            => k \notin Range(v.deals)
            /\ v.pc \in {"render", "done"} => v.paginator_list = v.deals

C5_Witness ==
    \E r \in Requests :
        LET v == view[r]
            d == ChosenDelta(v)
        IN  /\ v.pc = "render" /\ ValidIndex(v) /\ d # -1
            /\ \E k \in Range(v.deals_in) :
                  table[k].date_last_modified = Today - d
            /\ v.paginator_list # <<>>
            /\ v.paginator_list # v.deals_in

\* C6 as stated: after an accepted dtf, date_filter['default'] is the index.
C6_DefaultIsIndex ==
    \A r \in Requests :
        LET v == view[r]
        IN  (AfterFilter(v) /\ ValidIndex(v))
            => date_filter.default = PyInt(v.dtf).val

\* C6 amended: after an accepted dtf, date_filter['default'] is the delta of
\* the accepted choice, also when that delta is the sentinel -1.
C6_DefaultIsDelta ==
    \A r \in Requests :
        LET v == view[r]
        IN  (AfterFilter(v) /\ ValidIndex(v))
            => date_filter.default = ChosenDelta(v)

C6_Witness ==
    \E r \in Requests :
        LET v == view[r]
        IN  /\ AfterFilter(v) /\ ValidIndex(v)
            /\ ChosenDelta(v) = -1
            /\ v.default_in # -1
            /\ date_filter.default = -1

\* C7: on a slug that matches no instance, the handler ends with Http404 and
\* neither a filtering nor a rendering step has run.
C7_MissIsHttp404 ==
    \A r \in Requests :
        LET v == view[r]
        IN  (v.kind = "DealCollectionItemsListBaseView" /\ v.pc = "done"
             /\ v.slug \notin ModelSlugs)
            => (v.outcome = "Http404" /\ v.trace = <<"get_queryset">>)

\* what a request's own dtf makes of the class defaults
OwnDefault(v) == IF ValidIndex(v) THEN ChosenDelta(v) ELSE -1
OwnDeals(v) ==
    IF ValidIndex(v) /\ ChosenDelta(v) # -1
    THEN ModifiedAfter(AllDeals, Today - ChosenDelta(v))
    ELSE AllDeals

\* C8: the date_filter default and the deals in a request's listing depend
\* on that request's dtf and the class defaults only.
C8_RequestsIsolated ==
    \A r \in Requests :
        LET v == view[r]
        IN  (v.kind = "DealListBaseView" /\ v.listing.shown)
            => /\ v.listing.date_filter_default = OwnDefault(v)
               /\ v.paginator_list = OwnDeals(v)

\* a page of a collection of more than min_orphan_items items holds more
\* than min_orphan_items items
NoOrphanPage(v) ==
    Len(v.paginator_list) > v.min_orphan_items
        => Len(v.listing.deals_page.object_list) > v.min_orphan_items

\* 16 items, 15 to a page, 2 orphans, pg=2: the page holds all 16 items
SixteenOnOnePage(v) ==
    (/\ Len(v.paginator_list) = 16
     /\ v.num_page_items = 15 /\ v.min_orphan_items = 2
     /\ v.pg = Str(<<"2">>))
        => v.listing.deals_page.object_list = v.paginator_list

\* C9 as stated: pg=2 over 16 items is served all 16 items, and no served
\* page of a collection of more than min_orphan_items items holds
\* min_orphan_items items or fewer.
C9_NoOrphanPageEver ==
    \A r \in Requests :
        LET v == view[r]
        IN  ("render_deal_list" \in Range(v.trace) /\ Served(v))
            => (SixteenOnOnePage(v) /\ NoOrphanPage(v))

\* C9 amended: the same, the second part for num_page_items greater than
\* min_orphan_items.
C9_NoOrphanPage ==
    \A r \in Requests :
        LET v == view[r]
        IN  ("render_deal_list" \in Range(v.trace) /\ Served(v))
            => /\ SixteenOnOnePage(v)
               /\ v.num_page_items > v.min_orphan_items => NoOrphanPage(v)

C9_Witness ==
    \E r \in Requests :
        LET v == view[r]
        IN  /\ "render_deal_list" \in Range(v.trace) /\ Served(v)
            /\ Len(v.paginator_list) = 16
            /\ v.num_page_items = 15 /\ v.min_orphan_items = 2
            /\ v.pg = Str(<<"2">>)
            /\ Len(v.listing.deals_page.object_list) = 16

\* C10: on a slug hit the steps run in the order get_queryset, filter_deals,
\* set_title, set_description, render_deal_list, set_context_data, render,
\* and get yields the response of that last render.
C10_GetYieldsResponse ==
    \A r \in Requests :
        LET v == view[r]
        IN  (v.kind = "DealCollectionItemsListBaseView" /\ v.pc = "done"
             /\ v.slug \in ModelSlugs)
            => /\ v.trace = <<"get_queryset", "filter_deals", "set_title",
                              "set_description", "render_deal_list",
                              "set_context_data", "render">>
               /\ v.do_render_result = "HttpResponse"
               /\ v.outcome = v.do_render_result

====
